---- MODULE Spec2Model ----
(***************************************************************************)
(* fetcher-ts: the chained builder `class Fetcher` (handle / discardRest / *)
(* map / run) and the vNext interpreter `toTaskEither`, as state machines. *)
(*                                                                         *)
(* JavaScript values are tagged records, functions are expression trees    *)
(* evaluated by Apply, a response body is a sequence of characters that    *)
(* response.json() parses with JSONParse.                                  *)
(***************************************************************************)
EXTENDS Integers, Sequences, FiniteSets, TLC

\* ------------------------------------------------------------------ bounds
\* number of handle / discardRest / map calls made on one builder
MaxCalls == 3

\* ------------------------------------------------------ JavaScript values
Num(n) == [t |-> "number", n |-> n, s |-> <<>>]
Str(s) == [t |-> "string", n |-> 0, s |-> s]
Undefined == [t |-> "undefined", n |-> 0, s |-> <<>>]
\* the completion of a call that threw
Thrown == [t |-> "throw", n |-> 0, s |-> <<>>]
\* no value (a rejected dispatch carries none)
Nil == [t |-> "nil", n |-> 0, s |-> <<>>]

DigitChars == <<"0", "1", "2", "3", "4", "5", "6", "7", "8", "9">>
Quote == "\""

IsDigit(c) == \E i \in 1..10 : DigitChars[i] = c
DigitVal(c) == (CHOOSE i \in 1..10 : DigitChars[i] = c) - 1

RECURSIVE DigitsToNat(_)
DigitsToNat(s) ==
  IF s = <<>> THEN 0
  ELSE 10 * DigitsToNat(SubSeq(s, 1, Len(s) - 1)) + DigitVal(s[Len(s)])

IsNumeral(s) ==
  /\ Len(s) > 0
  /\ \A i \in 1..Len(s) : IsDigit(s[i])
  /\ (Len(s) > 1 => s[1] # "0")

\* JSON.parse of a body text: a numeral is a number, a quoted text is a
\* string, anything else is a SyntaxError.
JSONParse(text) ==
  IF IsNumeral(text) THEN Num(DigitsToNat(text))
  ELSE IF /\ Len(text) >= 2
          /\ text[1] = Quote
          /\ text[Len(text)] = Quote
          /\ \A i \in 2..(Len(text) - 1) : text[i] # Quote
       THEN Str(SubSeq(text, 2, Len(text) - 1))
       ELSE Thrown

\* ------------------------------------------------------------- functions
\* caller-supplied functions: identity, (s) => s.length, one that throws;
\* `length` of a number is undefined, of undefined a TypeError
Prim(p) == [op |-> p]
identity == Prim("identity")
length == Prim("length")
boom == Prim("boom")

\* fp-ts flow(a, b): x => b(a(x))
flow(a, b) == [op |-> "flow", a |-> a, b |-> b]

ApplyPrim(p, x) ==
  CASE p = "identity" -> x
    [] p = "message" -> IF x.t = "error" THEN Str(x.s) ELSE Undefined
    [] p = "length" ->
         IF x.t = "string" THEN Num(Len(x.s))
         ELSE IF x.t = "number" THEN Undefined
         ELSE Thrown
    [] OTHER -> Thrown

RECURSIVE Apply(_, _)
Apply(f, x) ==
  IF f.op = "flow"
  THEN LET r == Apply(f.a, x) IN
       IF r = Thrown THEN Thrown ELSE Apply(f.b, r)
  ELSE ApplyPrim(f.op, x)

\* e => e.message
message == Prim("message")

\* fallback thunks, () => To: one returning a constant, one that throws
Thunk(v) == [op |-> "thunk", v |-> v]
CallThunk(th) == th.v

\* ---------------------------------------------------------------- codecs
\* io.Type values handed to handle(): io.string, and a NumberFromString
\* codec whose decode output differs from its input.
NoCodec == "undefined"

Right(v) == [tag |-> "Right", value |-> v, errors |-> <<>>]
Left(e) == [tag |-> "Left", value |-> Nil, errors |-> e]

ValidationError(codec, v) == [codec |-> codec, value |-> v]

decode(codec, v) ==
  CASE codec = "string" ->
         IF v.t = "string" THEN Right(v)
         ELSE Left(<<ValidationError(codec, v)>>)
    [] codec = "NumberFromString" ->
         IF v.t = "string" /\ IsNumeral(v.s) THEN Right(Num(DigitsToNat(v.s)))
         ELSE Left(<<ValidationError(codec, v)>>)

\* fp-ts Option
none == [tag |-> "None", value |-> <<>>]
some(e) == [tag |-> "Some", value |-> e]

\* ----------------------------------------------------------------- inputs
Codes == {200, 400}
Statuses == {200, 400, 500}
Handlers == {identity}
Codecs == {NoCodec, "string", "NumberFromString"}
MapFns == {identity, length, boom}
RestHandlers == {Thunk(Str(<<"4", "2">>)), Thunk(Thrown)}

BodyFoo == <<"f", "o", "o">>
Body42 == <<"4", "2">>
BodyQ42 == <<Quote, "4", "2", Quote>>
Bodies == {BodyFoo, Body42, BodyQ42}
ContentTypes == {"absent", "application/json"}

Responses == [status : Statuses, body : Bodies, contentType : ContentTypes]

\* the responses the vNext interpreter is given: also a non-JSON content type
VNextContentTypes == ContentTypes \cup {"text/plain"}
VNextResponses ==
  [status : Statuses, body : Bodies, contentType : VNextContentTypes]

\* vNext decoders, (body: unknown) => Either<E, A>: one that accepts any
\* body, io.string.decode, one that throws
Decoders == {Prim("right"), Prim("decodeString"), Prim("boom")}
\* vNext onUnexpectedError: (e) => left(e), and one recovering with a default
UnexpectedHandlers == {Prim("left"), Prim("recover")}

\* functional variant: decoders, (response) => TaskEither<E, A>
FnDecoders == {Prim("stringDecoder"), Prim("jsonDecoder"),
               Prim("unexpectedError")}
FnUnexpectedHandlers == {Prim("unexpectedError"), Prim("stringDecoder")}
FnInputs == {"http://host.tld"}
FnInits == {"undefined", "POST"}
\* the functions given to map and to mapLeft
FnMapFns == {length}
FnMapLeftFns == {message}
\* the functional decoders read the body themselves, whatever the header
FnResponses == [status : Statuses, body : Bodies, contentType : {"absent"}]

\* ----------------------------------------------------------------- state
VARIABLES
  api,           \* which variant this behaviour exercises: "class" or "vNext"
  handlers,      \* Fetcher.handlers: the Map, as entries in insertion order
  restHandler,   \* Fetcher.restHandler, or NoRest
  calls,         \* the builder calls made so far, in order
  pair,          \* run()'s local [handler, codec]
  returned,      \* the builder as seen through the reference last returned
  fetcher,       \* vNext, functional: the Fetcher value built by make()
  unexpected,    \* vNext: the FetcherError handed to onUnexpectedError
  method,        \* functional: toTaskEither's local `method`
  extended,      \* functional: the arguments of the extend call just made
  pc,            \* where the dispatch in progress is suspended
  response,      \* what the fetch of this dispatch resolved with
  log,           \* what this dispatch has invoked, in order
  outcome,       \* how this dispatch settled
  reason,        \* what the fetch of this dispatch rejected with
  task,          \* what the task of Fetcher.toTaskEither() resolved with
  pc2,           \* where a second run() on the same builder is suspended
  response2,     \* what the fetch of the second run resolved with
  pair2,         \* the second run's local [handler, codec]
  outcome2       \* how the second run settled

classVars == <<handlers, restHandler, calls, pair, returned>>
vNextVars == <<fetcher, unexpected, method, extended>>
taskVars == <<reason, task>>
run2Vars == <<pc2, response2, pair2, outcome2>>
vars == <<api, handlers, restHandler, calls, pair, returned, fetcher, unexpected,
          method, extended, pc, response, log, outcome, reason, task,
          pc2, response2, pair2, outcome2>>

NoRest == [op |-> "undefined"]
NoPair == [handler |-> [op |-> "undefined"], codec |-> NoCodec]
NoResponse == [status |-> 0, body |-> <<>>, contentType |-> "absent"]
NoOutcome == [kind |-> "pending", value |-> Nil, errors |-> none,
              status |-> 0, cause |-> "none"]
NoFetcher == [handlers |-> <<>>, onUnexpectedError |-> [op |-> "undefined"]]
NoMethod == [op |-> "undefined"]
NoExtend == [fetcher |-> NoFetcher, handlers |-> <<>>]
NoTask == [tag |-> "pending", value |-> Nil, errors |-> <<>>]
NoError == [type |-> "none", status |-> 0, details |-> "none"]

\* ------------------------------------------------------------ Map helpers
RECURSIVE IndexOf(_, _, _)
IndexOf(hs, code, i) ==
  IF i > Len(hs) THEN 0
  ELSE IF hs[i].code = code THEN i ELSE IndexOf(hs, code, i + 1)

\* Map.prototype.set: an existing key keeps its position
MapSet(hs, code, handler, codec) ==
  LET i == IndexOf(hs, code, 1)
      e == [code |-> code, handler |-> handler, codec |-> codec]
  IN IF i = 0 THEN Append(hs, e) ELSE [hs EXCEPT ![i] = e]

\* Map.prototype.get
MapGet(hs, code) ==
  LET i == IndexOf(hs, code, 1)
  IN IF i = 0 THEN NoPair
     ELSE [handler |-> hs[i].handler, codec |-> hs[i].codec]

\* ----------------------------------------------------------- builder calls
\* the for-of loop of Fetcher.map, entry by entry
RECURSIVE MapLoop(_, _, _)
MapLoop(hs, i, f) ==
  IF i > Len(hs) THEN hs
  ELSE MapLoop(MapSet(hs, hs[i].code, flow(hs[i].handler, f), hs[i].codec),
               i + 1, f)

\* a map that stores [handler, undefined]
MapHandlers_DropsCodec(hs, f) ==
  [i \in 1..Len(hs) |->
     [code |-> hs[i].code, handler |-> flow(hs[i].handler, f), codec |-> NoCodec]]

\* a map that stores [f, codec]
MapHandlers_Replaces(hs, f) ==
  [i \in 1..Len(hs) |->
     [code |-> hs[i].code, handler |-> f, codec |-> hs[i].codec]]

\* a map whose loop visits the rewritten entries a second time
MapHandlers_ComposesTwice(hs, f) == MapLoop(MapLoop(hs, 1, f), 1, f)

MapHandlers(hs, f) == MapLoop(hs, 1, f)

\* what Fetcher.map leaves in restHandler: it does not touch it
MapRest(rest, f) == rest

\* the object a reference to the receiver shows, given the receiver's fields
This(hs, rest) == [handlers |-> hs, restHandler |-> rest]

CanCall == api = "class" /\ Len(calls) < MaxCalls /\ pc # "done"

Call(op, code, fn, codec) == [op |-> op, code |-> code, fn |-> fn, codec |-> codec]

\* a handle that drops the fallback when a code is registered
handle_ClearsRest(code, handler, codec) ==
  /\ CanCall
  /\ handlers' = MapSet(handlers, code, handler, codec)
  /\ restHandler' = NoRest
  /\ returned' = This(MapSet(handlers, code, handler, codec), NoRest)
  /\ calls' = Append(calls, Call("handle", code, handler, codec))
  /\ UNCHANGED <<api, run2Vars, pair, vNextVars, pc, response, log, outcome, taskVars>>

\* a handle that composes the function of the last map call onto the handler
handle_AppliesMaps(code, handler, codec) ==
  LET maps == {i \in 1..Len(calls) : calls[i].op = "map"}
      last == CHOOSE i \in maps : \A j \in maps : j <= i
      h == IF maps = {} THEN handler ELSE flow(handler, calls[last].fn)
  IN
  /\ CanCall
  /\ handlers' = MapSet(handlers, code, h, codec)
  /\ returned' = This(MapSet(handlers, code, h, codec), restHandler)
  /\ calls' = Append(calls, Call("handle", code, handler, codec))
  /\ UNCHANGED <<api, run2Vars, restHandler, pair, vNextVars, pc, response, log, outcome, taskVars>>

handle(code, handler, codec) ==
  /\ CanCall
  /\ handlers' = MapSet(handlers, code, handler, codec)
  /\ returned' = This(MapSet(handlers, code, handler, codec), restHandler)
  /\ calls' = Append(calls, Call("handle", code, handler, codec))
  /\ UNCHANGED <<api, run2Vars, restHandler, pair, vNextVars, pc, response, log, outcome, taskVars>>

discardRest(th) ==
  /\ CanCall
  /\ restHandler' = th
  /\ returned' = This(handlers, th)
  /\ calls' = Append(calls, Call("discardRest", 0, th, NoCodec))
  /\ UNCHANGED <<api, run2Vars, handlers, pair, vNextVars, pc, response, log, outcome, taskVars>>

\* a map that leaves the receiver as it was and returns a mapped copy
map_ReturnsCopy(f) ==
  /\ CanCall
  /\ returned' = This(MapHandlers(handlers, f), MapRest(restHandler, f))
  /\ calls' = Append(calls, Call("map", 0, f, NoCodec))
  /\ UNCHANGED <<api, run2Vars, handlers, restHandler, pair, vNextVars, pc,
                 response, log, outcome, taskVars>>

\* every builder method ends with `return unsafeCoerce(this)`
map(f) ==
  /\ CanCall
  /\ handlers' = MapHandlers(handlers, f)
  /\ restHandler' = MapRest(restHandler, f)
  /\ returned' = This(MapHandlers(handlers, f), MapRest(restHandler, f))
  /\ calls' = Append(calls, Call("map", 0, f, NoCodec))
  /\ UNCHANGED <<api, run2Vars, pair, vNextVars, pc, response, log, outcome, taskVars>>

\* -------------------------------------------------------------------- run
Ok(v, errs) == [kind |-> "ok", value |-> v, errors |-> errs,
                status |-> 0, cause |-> "none"]
Rejected(kind, status, cause) ==
  [kind |-> kind, value |-> Nil, errors |-> none,
   status |-> status, cause |-> cause]

\* a validation step that rejects the dispatch when the codec does
Validate_Aborts(codec, v) ==
  LET d == decode(codec, v) IN
  IF d.tag = "Left" THEN Rejected("ValidationError", 0, "decode")
  ELSE Ok(d.value, none)

\* a validation step that returns the handler's output when the codec accepts
Validate_KeepsRaw(codec, v) ==
  LET d == decode(codec, v) IN
  IF d.tag = "Left" THEN Ok(v, some(d.errors)) ELSE Ok(v, none)

\* the validation step of run: pipe(codec.decode(to), fold(...))
Validate(codec, v) ==
  LET d == decode(codec, v) IN
  IF d.tag = "Left" THEN Ok(v, some(d.errors)) ELSE Ok(d.value, none)

\* a run that hands the parsed body to the codec without calling the handler
AfterJson_SkipsHandler(p, body) ==
  IF body = Thrown
  THEN Rejected("JsonDeserializationError", 0, "SyntaxError")
  ELSE IF p.codec # NoCodec THEN Validate(p.codec, body)
  ELSE Ok(body, none)

\* a run that substitutes the fallback thunk when the handler path fails
AfterJson_FallsBack(p, body) ==
  LET v == IF body = Thrown THEN Thrown ELSE Apply(p.handler, body) IN
  IF v = Thrown
  THEN (IF restHandler # NoRest THEN Ok(CallThunk(restHandler), none)
        ELSE Rejected("HandlerNotSetError", 0, "none"))
  ELSE IF p.codec # NoCodec THEN Validate(p.codec, v)
  ELSE Ok(v, none)

\* a run whose failed body read surfaces as the raw parse error
AfterJson_RawParseError(p, body) ==
  IF body = Thrown
  THEN Rejected("SyntaxError", 0, "none")
  ELSE LET v == Apply(p.handler, body) IN
       IF v = Thrown THEN Rejected("Error: Handler side error", 0, "thrown")
       ELSE IF p.codec # NoCodec THEN Validate(p.codec, v)
       ELSE Ok(v, none)

\* a run whose throwing handler is caught by the catch around response.json()
AfterJson_HandlerThrowAsJson(p, body) ==
  IF body = Thrown
  THEN Rejected("JsonDeserializationError", 0, "SyntaxError")
  ELSE LET v == Apply(p.handler, body) IN
       IF v = Thrown THEN Rejected("JsonDeserializationError", 0, "thrown")
       ELSE IF p.codec # NoCodec THEN Validate(p.codec, v)
       ELSE Ok(v, none)

\* run after `await response.json()` has settled with `body`
AfterJson(p, body) ==
  IF body = Thrown
  THEN Rejected("JsonDeserializationError", 0, "SyntaxError")
  ELSE LET v == Apply(p.handler, body) IN
       IF v = Thrown THEN Rejected("Error: Handler side error", 0, "thrown")
       ELSE IF p.codec # NoCodec THEN Validate(p.codec, v)
       ELSE Ok(v, none)

\* a run that consults the codec before it calls the handler
AfterJsonLog_ValidatesFirst(p, body) ==
  IF body = Thrown THEN <<>>
  ELSE IF p.codec # NoCodec THEN <<"decode", "handler">>
  ELSE <<"handler">>

\* what AfterJson invokes, in order
AfterJsonLog(p, body) ==
  IF body = Thrown THEN <<>>
  ELSE IF Apply(p.handler, body) = Thrown THEN <<"handler">>
  ELSE IF p.codec # NoCodec THEN <<"handler", "decode">>
  ELSE <<"handler">>

\* a run that never falls back
NoHandler_IgnoresRest(rest, status) ==
  Rejected("HandlerNotSetError", status, "none")

\* a run whose HandlerNotSetError does not name the status
NoHandler_DropsStatus(rest, status) ==
  IF rest # NoRest
  THEN LET v == CallThunk(rest) IN
       IF v = Thrown THEN Rejected("thrown by restHandler", 0, "thrown")
       ELSE Ok(v, none)
  ELSE Rejected("HandlerNotSetError", 0, "none")

\* run when handlers.get(status) found nothing
NoHandler(rest, status) ==
  IF rest # NoRest
  THEN LET v == CallThunk(rest) IN
       IF v = Thrown THEN Rejected("thrown by restHandler", 0, "thrown")
       ELSE Ok(v, none)
  ELSE Rejected("HandlerNotSetError", status, "none")

\* a fetch that rejected, as a response
FetchFailed == NoResponse

\* what an injected fetch can reject with: the Error the platform's fetch
\* raises, or a value that is no Error
FetchErrors == {Rejected("TransportError", 0, "fetch"),
                Rejected("TransportError", 0, "string")}

\* the classes exported by ./errors, both subclasses of Error
ErrorsModule == {"JsonDeserializationError", "HandlerNotSetError"}

\* reason instanceof Error
instanceofError(r) ==
  \/ r.kind \in ErrorsModule
  \/ r.kind \in {"Error: Handler side error", "Error: Something went wrong"}
  \/ r.kind \in {"TransportError", "thrown by restHandler"} /\ r.cause # "string"

\* a toTaskEither whose task rejects with a reason that is no Error
tryCatch_Rethrows(o) ==
  IF o.kind = "ok" THEN Right(<<o.value, o.errors>>)
  ELSE IF instanceofError(o) THEN Left(o)
  ELSE [tag |-> "rejected", value |-> Nil, errors |-> o]

\* Fetcher.toTaskEither: tryCatch(() => this.run(), reason => ...)
tryCatch(o) ==
  IF o.kind = "ok" THEN Right(<<o.value, o.errors>>)
  ELSE IF instanceofError(o) THEN Left(o)
  ELSE Left(Rejected("Error: Something went wrong", 0, o.cause))

\* run as a function of the builder and of what fetch does
RunOutcome(hs, rest, r) ==
  IF r = FetchFailed THEN Rejected("TransportError", 0, "fetch")
  ELSE LET p == MapGet(hs, r.status) IN
       IF p # NoPair THEN AfterJson(p, JSONParse(r.body))
       ELSE NoHandler(rest, r.status)

runStart ==
  /\ api = "class"
  /\ pc = "idle"
  /\ pc' = "fetch"
  /\ log' = <<"fetch">>
  /\ UNCHANGED <<api, run2Vars, classVars, vNextVars, response, outcome, taskVars>>

\* a run that wraps what fetch rejected with in an Error of its own
runFetchRejected_Wraps(e) ==
  /\ api = "class"
  /\ pc = "fetch"
  /\ pc' = "done"
  /\ reason' = e
  /\ outcome' = Rejected("Error: Something went wrong", 0, e.cause)
  /\ task' = tryCatch(Rejected("Error: Something went wrong", 0, e.cause))
  /\ UNCHANGED <<api, run2Vars, classVars, vNextVars, response, log>>

\* `await this.fetch(...)` rejects with e: the outer catch rejects with it
runFetchRejected(e) ==
  /\ api = "class"
  /\ pc = "fetch"
  /\ pc' = "done"
  /\ reason' = e
  /\ outcome' = e
  /\ task' = tryCatch(e)
  /\ UNCHANGED <<api, run2Vars, classVars, vNextVars, response, log>>

\* a run that takes the resolved entry out of the registry
runFetchResolved_ConsumesEntry(r) ==
  /\ api = "class"
  /\ pc = "fetch"
  /\ response' = r
  /\ handlers' = SelectSeq(handlers, LAMBDA e : e.code # r.status)
  /\ LET p == MapGet(handlers, r.status) IN
     IF p # NoPair
     THEN /\ pair' = p
          /\ pc' = "json"
          /\ log' = log \o <<"get", "json">>
          /\ UNCHANGED <<outcome, task>>
     ELSE /\ pc' = "done"
          /\ log' = log \o (IF restHandler # NoRest
                            THEN <<"get", "restHandler">> ELSE <<"get">>)
          /\ outcome' = NoHandler(restHandler, r.status)
          /\ task' = tryCatch(NoHandler(restHandler, r.status))
          /\ UNCHANGED pair
  /\ UNCHANGED <<api, run2Vars, restHandler, calls, returned, vNextVars, reason>>

runFetchResolved(r) ==
  /\ api = "class"
  /\ pc = "fetch"
  /\ response' = r
  /\ LET p == MapGet(handlers, r.status) IN
     IF p # NoPair
     THEN /\ pair' = p
          /\ pc' = "json"
          /\ log' = log \o <<"get", "json">>
          /\ UNCHANGED <<outcome, task>>
     ELSE /\ pc' = "done"
          /\ log' = log \o (IF restHandler # NoRest
                            THEN <<"get", "restHandler">> ELSE <<"get">>)
          /\ outcome' = NoHandler(restHandler, r.status)
          /\ task' = tryCatch(NoHandler(restHandler, r.status))
          /\ UNCHANGED pair
  /\ UNCHANGED <<api, run2Vars, handlers, restHandler, calls, returned, vNextVars, reason>>

runJsonSettled ==
  /\ api = "class"
  /\ pc = "json"
  /\ LET body == JSONParse(response.body) IN
     /\ outcome' = AfterJson(pair, body)
     /\ task' = tryCatch(AfterJson(pair, body))
     /\ log' = log \o AfterJsonLog(pair, body)
  /\ pc' = "done"
  /\ UNCHANGED <<api, run2Vars, handlers, restHandler, calls, returned, pair, vNextVars, response,
                 reason>>

\* the caller takes the settled promise; the builder can be used again
runSettled ==
  /\ api = "class"
  /\ pc = "done"
  /\ pc' = "idle"
  /\ response' = NoResponse
  /\ pair' = NoPair
  /\ log' = <<>>
  /\ outcome' = NoOutcome
  /\ reason' = NoOutcome
  /\ task' = NoTask
  /\ UNCHANGED <<api, run2Vars, handlers, restHandler, calls, returned, vNextVars>>

\* ------------------------------------------ a second run() on the builder
\* Each call of run() has its own response, pair and promise; the calls
\* share this.handlers, this.restHandler and this.fetch.
run2Own == <<api, classVars, vNextVars, pc, response, log, outcome, taskVars>>

run2Start ==
  /\ api = "class"
  /\ pc2 = "idle"
  /\ pc2' = "fetch"
  /\ UNCHANGED <<run2Own, response2, pair2, outcome2>>

run2FetchRejected(e) ==
  /\ api = "class"
  /\ pc2 = "fetch"
  /\ pc2' = "done"
  /\ outcome2' = e
  /\ UNCHANGED <<run2Own, response2, pair2>>

run2FetchResolved(r) ==
  /\ api = "class"
  /\ pc2 = "fetch"
  /\ response2' = r
  /\ LET p == MapGet(handlers, r.status) IN
     IF p # NoPair
     THEN /\ pair2' = p
          /\ pc2' = "json"
          /\ UNCHANGED outcome2
     ELSE /\ pc2' = "done"
          /\ outcome2' = NoHandler(restHandler, r.status)
          /\ UNCHANGED pair2
  /\ UNCHANGED run2Own

run2JsonSettled ==
  /\ api = "class"
  /\ pc2 = "json"
  /\ outcome2' = AfterJson(pair2, JSONParse(response2.body))
  /\ pc2' = "done"
  /\ UNCHANGED <<run2Own, response2, pair2>>

run2Settled ==
  /\ api = "class"
  /\ pc2 = "done"
  /\ pc2' = "idle"
  /\ response2' = NoResponse
  /\ pair2' = NoPair
  /\ outcome2' = NoOutcome
  /\ UNCHANGED run2Own

\* ------------------------------------------------------ vNext toTaskEither
FetcherError(type, status, details) ==
  [type |-> type, status |-> status, details |-> details]

\* handler(body) for a vNext decoder: an Either, or Thrown
ApplyDecoder(d, body) ==
  CASE d.op = "right" -> Right(body)
    [] d.op = "decodeString" ->
         IF body.t = "string" THEN Right(body)
         ELSE Left(<<ValidationError("string", body)>>)
    [] OTHER -> Thrown

\* onUnexpectedError(e)
ApplyUnexpected(h, e) ==
  IF h.op = "left" THEN Left(<<e>>) ELSE Right(Str(<<"4", "2">>))

Resolves(either) == [kind |-> "resolved", either |-> either]

\* handlers.hasOwnProperty(s)
isStatus(f, s) == s \in DOMAIN f.handlers

\* contentType?.includes('application/json') !== undefined ? json : text
BodyReader(r) ==
  LET contentType == r.contentType
      includes == IF contentType = "absent" THEN "undefined"
                  ELSE IF contentType = "application/json" THEN "true"
                  ELSE "false"
  IN IF includes # "undefined" THEN "json" ELSE "text"

ReadBody(reader, text) == IF reader = "json" THEN JSONParse(text) ELSE Str(text)

make(hs, onUnexpectedError) ==
  /\ api = "vNext"
  /\ fetcher = NoFetcher
  /\ fetcher' = [handlers |-> hs, onUnexpectedError |-> onUnexpectedError]
  /\ UNCHANGED <<api, run2Vars, classVars, method, extended, unexpected, pc, response, log, outcome, taskVars>>

toTaskEitherStart ==
  /\ api = "vNext"
  /\ fetcher # NoFetcher
  /\ pc = "idle"
  /\ pc' = "fetch"
  /\ log' = <<"fetch">>
  /\ UNCHANGED <<api, run2Vars, classVars, vNextVars, response, outcome, taskVars>>

toTaskEitherFetchRejected ==
  /\ api = "vNext"
  /\ pc = "fetch"
  /\ pc' = "done"
  /\ outcome' = [kind |-> "rejected", either |-> Nil]
  /\ UNCHANGED <<api, run2Vars, classVars, vNextVars, response, log, taskVars>>

toTaskEitherFetchResolved(r) ==
  /\ api = "vNext"
  /\ pc = "fetch"
  /\ response' = r
  /\ IF isStatus(fetcher, r.status)
     THEN /\ pc' = "body"
          /\ log' = Append(log, BodyReader(r))
          /\ UNCHANGED <<unexpected, outcome>>
     ELSE LET e == FetcherError("HandlerNotSetError", r.status, "none") IN
          /\ pc' = "done"
          /\ log' = Append(log, "onUnexpectedError")
          /\ unexpected' = e
          /\ outcome' = Resolves(ApplyUnexpected(fetcher.onUnexpectedError, e))
  /\ UNCHANGED <<api, run2Vars, classVars, method, extended, fetcher, taskVars>>

toTaskEitherBodySettled ==
  /\ api = "vNext"
  /\ pc = "body"
  /\ LET body == ReadBody(BodyReader(response), response.body)
         res == IF body = Thrown THEN Thrown
                ELSE ApplyDecoder(fetcher.handlers[response.status], body)
         details == IF body = Thrown THEN "SyntaxError" ELSE "thrown by handler"
         e == FetcherError("JsonDeserializationError", 0, details)
     IN IF res = Thrown
        THEN /\ unexpected' = e
             /\ log' = log \o (IF body = Thrown THEN <<"onUnexpectedError">>
                               ELSE <<"handler", "onUnexpectedError">>)
             /\ outcome' = Resolves(ApplyUnexpected(fetcher.onUnexpectedError, e))
        ELSE /\ log' = Append(log, "handler")
             /\ outcome' = Resolves(res)
             /\ UNCHANGED unexpected
  /\ pc' = "done"
  /\ UNCHANGED <<api, run2Vars, classVars, method, extended, fetcher, response, taskVars>>

toTaskEitherSettled ==
  /\ api = "vNext"
  /\ pc = "done"
  /\ pc' = "idle"
  /\ response' = NoResponse
  /\ log' = <<>>
  /\ outcome' = NoOutcome
  /\ unexpected' = NoError
  /\ UNCHANGED <<api, run2Vars, classVars, method, extended, fetcher, taskVars>>

\* the records make() can be given: handlers for any subset of Codes
HandlerRecords == UNION {[S -> Decoders] : S \in SUBSET Codes}

\* ---------------------------------------------- functional toTaskEither
\* an Error object with the given message
Err(m) == [t |-> "error", n |-> 0, s |-> m]

\* a task whose promise rejected: a function given to bimap threw
TaskRejected == [tag |-> "rejected", value |-> Nil, errors |-> <<>>]

\* handleError(e): e itself when it is an Error
handleError(e) == IF e.t = "error" THEN e ELSE Err(<<"u", "n", "k">>)

\* TE.tryCatch(() => response.text(), handleError)
stringDecoder(r) == Right(Str(r.body))

\* TE.tryCatch(() => response.json(), handleError)
jsonDecoder(r) ==
  IF JSONParse(r.body) = Thrown THEN Left(handleError(Err(<<"b", "a", "d">>)))
  ELSE Right(JSONParse(r.body))

\* () => TE.left(new Error('unexpected error'))
unexpectedError(r) == Left(Err(<<"u", "n", "e", "x">>))

\* RTE.bimap(f, g)(d), as a decoder
RTEbimap(f, g, d) == [op |-> "bimap", f |-> f, g |-> g, d |-> d]

\* d(response)(): the Either the decoder's task resolves with
RECURSIVE RunDecoder(_, _)
RunDecoder(d, r) ==
  CASE d.op = "stringDecoder" -> stringDecoder(r)
    [] d.op = "jsonDecoder" -> jsonDecoder(r)
    [] d.op = "unexpectedError" -> unexpectedError(r)
    [] d.op = "bimap" ->
         LET e == RunDecoder(d.d, r) IN
         IF e.tag = "Left"
         THEN LET x == Apply(d.f, e.errors) IN
              IF x = Thrown THEN TaskRejected ELSE Left(x)
         ELSE IF e.tag = "Right"
         THEN LET y == Apply(d.g, e.value) IN
              IF y = Thrown THEN TaskRejected ELSE Right(y)
         ELSE e

\* a bimap that leaves onUnexpectedError as it was
bimap_SkipsUnexpected(f, g, fe) ==
  [input |-> fe.input,
   handlers |-> [c \in DOMAIN fe.handlers |-> RTEbimap(f, g, fe.handlers[c])],
   onUnexpectedError |-> fe.onUnexpectedError,
   init |-> fe.init]

\* bimap(f, g)(fetcher)
bimap(f, g, fe) ==
  [input |-> fe.input,
   handlers |-> [c \in DOMAIN fe.handlers |-> RTEbimap(f, g, fe.handlers[c])],
   onUnexpectedError |-> RTEbimap(f, g, fe.onUnexpectedError),
   init |-> fe.init]

\* a dispatch that always takes onUnexpectedError
SelectMethod_IgnoresHandlers(fe, status) == fe.onUnexpectedError

\* isHandled(status) ? fetcher.handlers[status] : fetcher.onUnexpectedError
SelectMethod(fe, status) ==
  IF isStatus(fe, status) THEN fe.handlers[status] ELSE fe.onUnexpectedError

\* the Either of toTaskEither(fetch)(fe) when fetch resolves with r
RunTask(fe, r) == RunDecoder(SelectMethod(fe, r.status), r)

FnCall(op, f, g) == [op |-> op, f |-> f, g |-> g]

FnCanCall ==
  /\ api = "fn" /\ fetcher # NoFetcher
  /\ pc = "idle" /\ Len(calls) < MaxCalls

fnMake(input, hs, onUnexpectedError, init) ==
  /\ api = "fn"
  /\ fetcher = NoFetcher
  /\ fetcher' = [input |-> input, handlers |-> hs,
                 onUnexpectedError |-> onUnexpectedError, init |-> init]
  /\ UNCHANGED <<api, run2Vars, classVars, unexpected, method, extended, pc, response,
                 log, outcome, taskVars>>

\* map(f) = bimap(identity, f)
fnMap(f) ==
  /\ FnCanCall
  /\ fetcher' = bimap(identity, f, fetcher)
  /\ calls' = Append(calls, FnCall("map", identity, f))
  /\ extended' = NoExtend
  /\ UNCHANGED <<api, run2Vars, handlers, restHandler, pair, returned, unexpected, method, pc,
                 response, log, outcome, taskVars>>

\* mapLeft(g) = bimap(g, identity)
fnMapLeft(g) ==
  /\ FnCanCall
  /\ fetcher' = bimap(g, identity, fetcher)
  /\ calls' = Append(calls, FnCall("mapLeft", g, identity))
  /\ extended' = NoExtend
  /\ UNCHANGED <<api, run2Vars, handlers, restHandler, pair, returned, unexpected, method, pc,
                 response, log, outcome, taskVars>>

fnBimap(f, g) ==
  /\ FnCanCall
  /\ fetcher' = bimap(f, g, fetcher)
  /\ calls' = Append(calls, FnCall("bimap", f, g))
  /\ extended' = NoExtend
  /\ UNCHANGED <<api, run2Vars, handlers, restHandler, pair, returned, unexpected, method, pc,
                 response, log, outcome, taskVars>>

\* an extend whose spread puts the old handlers last
extend_OldWins(hs, fe) ==
  [fe EXCEPT !.handlers =
     [c \in DOMAIN fe.handlers \cup DOMAIN hs |->
        IF c \in DOMAIN fe.handlers THEN fe.handlers[c] ELSE hs[c]]]

\* extend(handlers)(fetcher):
\* {...fetcher, handlers: {...fetcher.handlers, ...handlers}}
extend(hs, fe) ==
  [fe EXCEPT !.handlers =
     [c \in DOMAIN fe.handlers \cup DOMAIN hs |->
        IF c \in DOMAIN hs THEN hs[c] ELSE fe.handlers[c]]]

\* the call builds new objects: the fetcher it was given stays as it was
fnExtend(hs) ==
  /\ api = "fn" /\ fetcher # NoFetcher
  /\ pc = "idle"
  /\ fetcher' = extend(hs, fetcher)
  /\ extended' = [fetcher |-> fetcher, handlers |-> hs]
  /\ UNCHANGED <<api, run2Vars, classVars, unexpected, method, pc, response, log,
                 outcome, taskVars>>

fnToTaskEitherStart ==
  /\ api = "fn"
  /\ fetcher # NoFetcher
  /\ pc = "idle"
  /\ pc' = "fetch"
  /\ log' = <<"fetch">>
  /\ extended' = NoExtend
  /\ UNCHANGED <<api, run2Vars, classVars, fetcher, unexpected, method, response,
                 outcome, taskVars>>

\* TE.rightTask(() => fetch(...)): the task rejects when fetch does
fnFetchRejected ==
  /\ api = "fn"
  /\ pc = "fetch"
  /\ pc' = "done"
  /\ outcome' = [kind |-> "rejected", either |-> Nil]
  /\ UNCHANGED <<api, run2Vars, classVars, vNextVars, response, log, taskVars>>

\* the function given to TE.chain
fnFetchResolved(r) ==
  /\ api = "fn"
  /\ pc = "fetch"
  /\ response' = r
  /\ method' = SelectMethod(fetcher, r.status)
  /\ log' = Append(log, IF isStatus(fetcher, r.status) THEN "handler"
                        ELSE "onUnexpectedError")
  /\ outcome' = Resolves(RunDecoder(SelectMethod(fetcher, r.status), r))
  /\ pc' = "done"
  /\ UNCHANGED <<api, run2Vars, classVars, fetcher, unexpected, extended, taskVars>>

fnSettled ==
  /\ api = "fn"
  /\ pc = "done"
  /\ pc' = "idle"
  /\ response' = NoResponse
  /\ method' = NoMethod
  /\ log' = <<>>
  /\ outcome' = NoOutcome
  /\ UNCHANGED <<api, run2Vars, classVars, fetcher, unexpected, extended, taskVars>>

\* the records the functional make() can be given
FnHandlerRecords == UNION {[S -> FnDecoders] : S \in SUBSET Codes}

\* the records extend() is given
ExtendRecords == {[c \in {400} |-> Prim("jsonDecoder")]}

\* ---------------------------------------------------------- specification
Init ==
  /\ api \in {"class", "vNext", "fn"}
  /\ handlers = <<>>
  /\ restHandler = NoRest
  /\ calls = <<>>
  /\ pair = NoPair
  /\ returned = This(<<>>, NoRest)
  /\ fetcher = NoFetcher
  /\ unexpected = NoError
  /\ method = NoMethod
  /\ extended = NoExtend
  /\ pc = "idle"
  /\ response = NoResponse
  /\ log = <<>>
  /\ outcome = NoOutcome
  /\ reason = NoOutcome
  /\ task = NoTask
  /\ pc2 = "idle"
  /\ response2 = NoResponse
  /\ pair2 = NoPair
  /\ outcome2 = NoOutcome

Next ==
  \/ \E c \in Codes, h \in Handlers, k \in Codecs : handle(c, h, k)
  \/ \E th \in RestHandlers : discardRest(th)
  \/ \E f \in MapFns : map(f)
  \/ runStart
  \/ \E e \in FetchErrors : runFetchRejected(e)
  \/ \E r \in Responses : runFetchResolved(r)
  \/ runJsonSettled
  \/ runSettled
  \/ \E hs \in HandlerRecords, u \in UnexpectedHandlers : make(hs, u)
  \/ toTaskEitherStart
  \/ toTaskEitherFetchRejected
  \/ \E r \in VNextResponses : toTaskEitherFetchResolved(r)
  \/ toTaskEitherBodySettled
  \/ toTaskEitherSettled
  \/ \E i \in FnInputs, hs \in FnHandlerRecords, u \in FnUnexpectedHandlers,
        n \in FnInits : fnMake(i, hs, u, n)
  \/ \E f \in FnMapFns : fnMap(f)
  \/ \E g \in FnMapLeftFns : fnMapLeft(g)
  \/ \E f \in FnMapLeftFns, g \in FnMapFns : fnBimap(f, g)
  \/ \E hs \in ExtendRecords : fnExtend(hs)
  \/ fnToTaskEitherStart
  \/ fnFetchRejected
  \/ \E r \in FnResponses : fnFetchResolved(r)
  \/ fnSettled

Spec == Init /\ [][Next]_vars

\* ------------------------------------------------- two interleaved runs
\* Registration happens while no run is in progress; then two run() calls
\* on the one builder take their steps in any order.
MaxRegistrations == 2
RunsResponses ==
  [status : {200, 500}, body : {BodyFoo, BodyQ42}, contentType : {"absent"}]

Registering == pc = "idle" /\ pc2 = "idle" /\ Len(calls) < MaxRegistrations

InitRuns == Init /\ api = "class"

NextRuns ==
  \/ \E c \in Codes, h \in Handlers, k \in Codecs :
       Registering /\ handle(c, h, k)
  \/ \E th \in RestHandlers : Registering /\ discardRest(th)
  \/ \E f \in MapFns : Registering /\ map(f)
  \/ runStart
  \/ \E e \in FetchErrors : runFetchRejected(e)
  \/ \E r \in RunsResponses : runFetchResolved(r)
  \/ runJsonSettled
  \/ runSettled
  \/ run2Start
  \/ \E e \in FetchErrors : run2FetchRejected(e)
  \/ \E r \in RunsResponses : run2FetchResolved(r)
  \/ run2JsonSettled
  \/ run2Settled

SpecRuns == InitRuns /\ [][NextRuns]_vars

\* ------------------------------------------------------- dispatch paths
\* the run() that has just settled resolved a registry entry
Resolved == api = "class" /\ pc = "done" /\ pair # NoPair
\* the run() that has just settled found no entry for the response's status
Missed == api = "class" /\ pc = "done" /\ response # NoResponse /\ pair = NoPair

payload == JSONParse(response.body)
\* the resolved transform's output for the parsed body
to == Apply(pair.handler, payload)
Parsed == payload # Thrown
Transformed == Parsed /\ to # Thrown

C2_FallbackPath ==
  (Missed /\ restHandler # NoRest /\ CallThunk(restHandler) # Thrown) =>
    /\ outcome = Ok(CallThunk(restHandler), none)
    /\ \A i \in 1..Len(log) : log[i] \notin {"json", "text"}

C2_Witness ==
  /\ Missed /\ restHandler # NoRest
  /\ handlers # <<>>
  /\ response.status = 500
  /\ outcome.kind = "ok"

\* C3: with no registry entry and no fallback the class run rejects with a
\* HandlerNotSetError naming exactly the response's status, and no other
\* failure (transport, body, handler) is reported as one; vNext toTaskEither
\* hands {type: 'HandlerNotSetError', status} to onUnexpectedError exactly
\* when the status is not a key of handlers.
C3_HandlerNotSet ==
  /\ (api = "class" /\ pc = "done") =>
       /\ (outcome.kind = "HandlerNotSetError")
            <=> (Missed /\ restHandler = NoRest)
       /\ (outcome.kind = "HandlerNotSetError"
             => outcome.status = response.status)
  /\ (api = "vNext" /\ pc = "done") =>
       /\ (unexpected.type = "HandlerNotSetError")
            <=> (response # NoResponse /\ ~isStatus(fetcher, response.status))
       /\ (unexpected.type = "HandlerNotSetError"
             => unexpected.status = response.status)

C3_Witness ==
  /\ Missed /\ restHandler = NoRest
  /\ handlers # <<>>
  /\ response.status = 500
  /\ outcome.kind = "HandlerNotSetError"
  /\ outcome.status = 500

\* C4: when the resolved entry has a schema and the validator rejects the
\* transform's output, run still succeeds, with the transform's raw output
\* and a present, non-empty error list.
C4_ValidationDegrade ==
  (Resolved /\ Transformed /\ pair.codec # NoCodec
     /\ decode(pair.codec, to).tag = "Left") =>
    /\ outcome.kind = "ok"
    /\ outcome.value = to
    /\ outcome.errors.tag = "Some"
    /\ Len(outcome.errors.value) > 0

C4_Witness ==
  /\ Resolved /\ Transformed
  /\ pair.codec = "string"
  /\ to.t = "number"
  /\ outcome.errors.tag = "Some"

\* C5: in every successful result the error list is absent when the entry
\* has no schema or the fallback was taken; with a schema it is present
\* exactly when the validator rejected the transform's output, and on
\* acceptance the value is the validator's output.
C5_ValidationOutcome ==
  (api = "class" /\ pc = "done" /\ outcome.kind = "ok") =>
    IF pair = NoPair \/ pair.codec = NoCodec
    THEN outcome.errors = none
    ELSE /\ (outcome.errors.tag = "Some") <=> (decode(pair.codec, to).tag = "Left")
         /\ (decode(pair.codec, to).tag = "Right"
               => outcome.value = decode(pair.codec, to).value)

C5_Witness ==
  /\ Resolved /\ outcome.kind = "ok"
  /\ pair.codec = "NumberFromString"
  /\ outcome.errors = none
  /\ outcome.value.t = "number"
  /\ to.t = "string"

\* the last discardRest call made on the builder, 0 if none
LastDiscardRest ==
  IF \E i \in 1..Len(calls) : calls[i].op = "discardRest"
  THEN CHOOSE i \in 1..Len(calls) :
         /\ calls[i].op = "discardRest"
         /\ \A j \in (i + 1)..Len(calls) : calls[j].op # "discardRest"
  ELSE 0

MapsAfter(i) == {j \in (i + 1)..Len(calls) : calls[j].op = "map"}

\* C6: after discardRest(thunk) and then map(f), a dispatch whose status has
\* no registry entry returns (f(thunk()), none).
C6_MapTransformsFallback ==
  (/\ Missed
   /\ LastDiscardRest > 0
   /\ Cardinality(MapsAfter(LastDiscardRest)) = 1
   /\ CallThunk(calls[LastDiscardRest].fn) # Thrown
   /\ Apply(calls[CHOOSE j \in MapsAfter(LastDiscardRest) : TRUE].fn,
            CallThunk(calls[LastDiscardRest].fn)) # Thrown) =>
    outcome = Ok(Apply(calls[CHOOSE j \in MapsAfter(LastDiscardRest) : TRUE].fn,
                       CallThunk(calls[LastDiscardRest].fn)),
                 none)

\* C7: for handle(c, h, schema) followed by map(f), with h(body) satisfying
\* the schema, a dispatch on status c returns (f(h(body)), none).
C7_MapPreservesStructure ==
  (/\ Resolved /\ Parsed
   /\ pair.handler.op = "flow"
   /\ pair.handler.a.op # "flow"
   /\ pair.codec # NoCodec
   /\ Apply(pair.handler.a, payload) # Thrown
   /\ decode(pair.codec, Apply(pair.handler.a, payload)).tag = "Right"
   /\ to # Thrown) =>
    outcome = Ok(to, none)

\* C8: the outcome of a dispatch, for every response and for a failed
\* fetch, is the same after map(identity) as before it.
C8_MapIdentity ==
  [][(calls' = Append(calls, Call("map", 0, identity, NoCodec))) =>
       \A r \in Responses \cup {FetchFailed} :
         RunOutcome(handlers', restHandler', r)
           = RunOutcome(handlers, restHandler, r)]_vars

C8_Witness ==
  /\ api = "class"
  /\ calls # <<>>
  /\ calls[Len(calls)] = Call("map", 0, identity, NoCodec)
  /\ restHandler # NoRest
  /\ \E i \in 1..Len(handlers) :
       /\ handlers[i].codec = "NumberFromString"
       /\ handlers[i].handler = flow(identity, identity)

\* C9: for every builder (taken before a dispatch starts) and every
\* response, the value of a dispatch after map(f) then map(g) is the value
\* after the single map(x => g(f(x))), on registered codes and on the
\* fallback path.
C9_MapComposition ==
  (api = "class" /\ pc = "idle") =>
    \A f \in MapFns, g \in MapFns :
      LET twice == MapHandlers(MapHandlers(handlers, f), g)
          twiceRest == MapRest(MapRest(restHandler, f), g)
          once == MapHandlers(handlers, flow(f, g))
          onceRest == MapRest(restHandler, flow(f, g))
      IN \A r \in Responses \cup {FetchFailed} :
           RunOutcome(twice, twiceRest, r).value
             = RunOutcome(once, onceRest, r).value

C9_Witness ==
  /\ Resolved /\ outcome.kind = "ok"
  /\ Len(calls) >= 3
  /\ calls[Len(calls) - 1] = Call("map", 0, length, NoCodec)
  /\ calls[Len(calls)] = Call("map", 0, identity, NoCodec)
  /\ pair.handler = flow(flow(identity, length), identity)
  /\ outcome.value.t = "number"

\* C10: with a handler for the status and a body that is raw text, not
\* JSON, and no JSON content type, the handler receives the text and run
\* succeeds with (handler(text), none).
C10_PlainTextBody ==
  (/\ Resolved
   /\ ~Parsed
   /\ response.contentType = "absent"
   /\ Apply(pair.handler, Str(response.body)) # Thrown
   /\ (pair.codec # NoCodec =>
         decode(pair.codec, Apply(pair.handler, Str(response.body)))
           = Right(Apply(pair.handler, Str(response.body))))) =>
    outcome = Ok(Apply(pair.handler, Str(response.body)), none)

\* the vNext dispatch read the body of a handled status
VNextBodyRead ==
  /\ api = "vNext" /\ pc \in {"body", "done"}
  /\ response # NoResponse
  /\ isStatus(fetcher, response.status)

Invoked(what) == \E i \in 1..Len(log) : log[i] = what

\* C11: for a handled status vNext toTaskEither reads the body with
\* response.json() exactly when the content-type header declares
\* application/json, and with response.text() in every other case.
C11_ContentTypeDriven ==
  VNextBodyRead =>
    /\ Invoked("json") <=> (response.contentType = "application/json")
    /\ Invoked("text") <=> (response.contentType # "application/json")

\* C12: in the class run, when a handler is resolved and reading the body
\* fails, run rejects with a JsonDeserializationError carrying the parse
\* failure, the transform is never invoked and no value or error list is
\* produced; a JsonDeserializationError occurs only where a handler was
\* resolved.
C12_BodyDeserializationFailure ==
  (api = "class" /\ pc = "done") =>
    /\ (Resolved /\ ~Parsed) =>
         /\ outcome.kind = "JsonDeserializationError"
         /\ outcome.cause = "SyntaxError"
         /\ ~Invoked("handler")
         /\ outcome.value = Nil
         /\ outcome.errors = none
    /\ outcome.kind = "JsonDeserializationError" => (Resolved /\ ~Parsed)

C12_Witness ==
  /\ Resolved /\ ~Parsed
  /\ restHandler # NoRest
  /\ outcome.kind = "JsonDeserializationError"
  /\ Invoked("json")

\* C13: in the class run, when the body parsed and the resolved transform
\* throws, run rejects with the handler-side Error wrapping what was thrown;
\* the rejection is neither a JsonDeserializationError nor a
\* HandlerNotSetError and there is no success pair.
C13_HandlerExecutionFailure ==
  (Resolved /\ Parsed /\ to = Thrown) =>
    /\ outcome.kind = "Error: Handler side error"
    /\ outcome.cause = "thrown"
    /\ outcome.kind \notin {"JsonDeserializationError", "HandlerNotSetError"}
    /\ outcome.kind # "ok"
    /\ outcome.value = Nil

C13_Witness ==
  /\ Resolved /\ Parsed /\ to = Thrown
  /\ pair.codec # NoCodec
  /\ Invoked("handler")
  /\ outcome.kind = "Error: Handler side error"

\* C14: in vNext toTaskEither, when the body was read and the registered
\* handler itself throws, onUnexpectedError is not given a
\* JsonDeserializationError.
C14_VNextHandlerFailureDistinct ==
  (/\ VNextBodyRead /\ pc = "done"
   /\ ReadBody(BodyReader(response), response.body) # Thrown
   /\ ApplyDecoder(fetcher.handlers[response.status],
                   ReadBody(BodyReader(response), response.body)) = Thrown)
    => unexpected.type # "JsonDeserializationError"

\* the fetch of the run() that has just settled rejected
TransportFailed == api = "class" /\ pc = "done" /\ reason # NoOutcome

Count(what) == Cardinality({i \in 1..Len(log) : log[i] = what})

\* C15: when the injected fetch fails, run rejects with the very value fetch
\* rejected with, fetch was called exactly once in the dispatch, and nothing
\* else ran: no registry entry is held, and no body read, transform,
\* validator or fallback thunk was invoked.
C15_TransportFailure ==
  TransportFailed =>
    /\ outcome = reason
    /\ Count("fetch") = 1
    /\ pair = NoPair
    /\ response = NoResponse
    /\ log = <<"fetch">>

C15_Witness ==
  /\ TransportFailed
  /\ reason.cause = "string"
  /\ handlers # <<>>
  /\ restHandler # NoRest

\* the four fatal kinds: transport, body deserialization, handler
\* execution, handler not set
FatalKinds == {"TransportError", "JsonDeserializationError",
               "Error: Handler side error", "HandlerNotSetError"}

\* C16: every run that settles ends in exactly one outcome: a success pair of
\* a value and optional validation errors, or a failure of exactly one of
\* the four fatal kinds, and never a value together with a failure.
C16_SingleOutcome ==
  (api = "class" /\ pc = "done") =>
    /\ outcome.kind = "ok" \/ outcome.kind \in FatalKinds
    /\ outcome.kind = "ok" => outcome.cause = "none"
    /\ outcome.kind # "ok" => (outcome.value = Nil /\ outcome.errors = none)

\* C17: the path of a run is chosen by registry membership of the observed
\* status alone: the fallback thunk is invoked only when the status has no
\* entry, the body is read only when it has one, and when the entry's body
\* parse or transform fails the run fails without invoking the fallback.
C17_PathSelection ==
  (api = "class" /\ pc = "done" /\ response # NoResponse) =>
    /\ Invoked("restHandler") => MapGet(handlers, response.status) = NoPair
    /\ Invoked("json") <=> MapGet(handlers, response.status) # NoPair
    /\ ~(Invoked("restHandler") /\ Invoked("json"))
    /\ (Resolved /\ ~Transformed) =>
         /\ outcome.kind \notin {"ok", "thrown by restHandler"}
         /\ ~Invoked("restHandler")

C17_Witness ==
  /\ Resolved /\ ~Transformed
  /\ restHandler # NoRest
  /\ CallThunk(restHandler) # Thrown
  /\ outcome.kind = "Error: Handler side error"

\* C18: the task of Fetcher.toTaskEither() never rejects: a successful run
\* is delivered as Right([value, errors]), a run rejected with an Error as
\* Left of that same Error, and a run rejected with a value that is no Error
\* as Left of a new Error wrapping it.
C18_TaskNeverRejects ==
  (api = "class" /\ pc = "done") =>
    /\ task.tag \in {"Right", "Left"}
    /\ outcome.kind = "ok" => task = Right(<<outcome.value, outcome.errors>>)
    /\ (outcome.kind # "ok" /\ instanceofError(outcome)) => task = Left(outcome)
    /\ (outcome.kind # "ok" /\ ~instanceofError(outcome)) =>
         /\ task.tag = "Left"
         /\ task.errors # outcome
         /\ instanceofError(task.errors)
         /\ task.errors.cause = outcome.cause

C18_Witness ==
  /\ TransportFailed
  /\ ~instanceofError(outcome)
  /\ task.tag = "Left"
  /\ task.errors.kind = "Error: Something went wrong"

\* a functional dispatch whose fetch resolved has settled
FnDispatched == api = "fn" /\ pc = "done" /\ response # NoResponse

\* C19: in the functional toTaskEither, for a response of status s exactly
\* one decoder is invoked, handlers[s] when s is an own key of handlers and
\* onUnexpectedError otherwise, and the task resolves with exactly the
\* Either of that decoder; a Left of a registered decoder is returned as it
\* is and onUnexpectedError is not invoked for it.
C19_FunctionalDispatch ==
  FnDispatched =>
    LET s == response.status IN
    /\ isStatus(fetcher, s) =>
         /\ method = fetcher.handlers[s]
         /\ log = <<"fetch", "handler">>
         /\ outcome = Resolves(RunDecoder(fetcher.handlers[s], response))
    /\ ~isStatus(fetcher, s) =>
         /\ method = fetcher.onUnexpectedError
         /\ log = <<"fetch", "onUnexpectedError">>
         /\ outcome = Resolves(RunDecoder(fetcher.onUnexpectedError, response))

C19_Witness ==
  /\ FnDispatched
  /\ isStatus(fetcher, response.status)
  /\ outcome.either.tag = "Left"
  /\ fetcher.onUnexpectedError.op = "stringDecoder"
  /\ ~Invoked("onUnexpectedError")

\* the functional call appended by this step
LastFnCall == calls'[Len(calls')]

\* this step is one functional map, mapLeft or bimap call
FnMapped == api = "fn" /\ Len(calls') = Len(calls) + 1

\* C20: the functional map, mapLeft and bimap act per branch: for every
\* response, map(f) turns the fetcher's Right(a) into Right(f(a)) and leaves
\* a Left as it is, mapLeft(g) turns Left(e) into Left(g(e)) and leaves a
\* Right as it is, whether the response goes to a registered handler or to
\* onUnexpectedError; input, init and the handled status codes stay as they
\* were.
C20_FunctionalMapBranches ==
  [][FnMapped =>
       /\ fetcher'.input = fetcher.input
       /\ fetcher'.init = fetcher.init
       /\ DOMAIN fetcher'.handlers = DOMAIN fetcher.handlers
       /\ \A r \in FnResponses :
            LET old == RunTask(fetcher, r)
                new == RunTask(fetcher', r)
                onLeft == Apply(LastFnCall.f, old.errors)
                onRight == Apply(LastFnCall.g, old.value)
            IN
            /\ (LastFnCall.op = "map" /\ old.tag = "Left") => new = old
            /\ (LastFnCall.op = "mapLeft" /\ old.tag = "Right") => new = old
            /\ (LastFnCall.op \in {"map", "bimap"} /\ old.tag = "Right"
                  /\ onRight # Thrown) => new = Right(onRight)
            /\ (LastFnCall.op \in {"mapLeft", "bimap"} /\ old.tag = "Left"
                  /\ onLeft # Thrown) => new = Left(onLeft)
  ]_vars

C20_Witness ==
  /\ FnDispatched
  /\ Len(calls) >= 2
  /\ calls[Len(calls)].op = "mapLeft"
  /\ \E i \in 1..Len(calls) : calls[i].op = "map"
  /\ ~isStatus(fetcher, response.status)
  /\ DOMAIN fetcher.handlers # {}
  /\ outcome.either.tag = "Left"
  /\ outcome.either.errors.t = "string"

\* this step is an extend call
Extended == api = "fn" /\ extended' # NoExtend

\* C21: extend(handlers)(fetcher) returns a fetcher that handles the union
\* of the old and the new status codes: a code among the new handlers uses
\* the new decoder, every other old code keeps its decoder,
\* onUnexpectedError, input and init are as before, and the fetcher that was
\* passed is not modified.
C21_ExtendUnion ==
  [][Extended =>
       LET hs == extended'.handlers IN
       /\ DOMAIN fetcher'.handlers = DOMAIN fetcher.handlers \cup DOMAIN hs
       /\ \A c \in DOMAIN hs : fetcher'.handlers[c] = hs[c]
       /\ \A c \in DOMAIN fetcher.handlers \ DOMAIN hs :
            fetcher'.handlers[c] = fetcher.handlers[c]
       /\ fetcher'.onUnexpectedError = fetcher.onUnexpectedError
       /\ fetcher'.input = fetcher.input
       /\ fetcher'.init = fetcher.init
       /\ extended'.fetcher = fetcher
  ]_vars

C21_Witness ==
  /\ api = "fn" /\ extended # NoExtend
  /\ Len(calls) >= 1
  /\ DOMAIN extended.fetcher.handlers = {200, 400}
  /\ extended.fetcher.handlers[400] # extended.handlers[400]
  /\ fetcher.handlers[400] = extended.handlers[400]
  /\ fetcher.handlers[200] = extended.fetcher.handlers[200]
  /\ fetcher # extended.fetcher

\* the first handle call made for code c, 0 if none
FirstHandle(c) ==
  IF \E i \in 1..Len(calls) : calls[i].op = "handle" /\ calls[i].code = c
  THEN CHOOSE i \in 1..Len(calls) :
         /\ calls[i].op = "handle" /\ calls[i].code = c
         /\ \A j \in 1..(i - 1) : ~(calls[j].op = "handle" /\ calls[j].code = c)
  ELSE 0

\* C22: a status code is claimed at most once on a builder: after
\* handle(c, h1, s1) and a later handle(c, h2, s2), a dispatch with status c
\* still uses the schema of the first registration.
C22_SingleRegistration ==
  Resolved => pair.codec = calls[FirstHandle(response.status)].codec

StepOrder == <<"fetch", "get", "json", "handler", "decode">>
Steps == {StepOrder[i] : i \in 1..Len(StepOrder)}
StepPos(what) == CHOOSE i \in 1..Len(StepOrder) : StepOrder[i] = what

\* C24: within one run the transport call, the registry lookup, the body
\* read, the transform and the validator happen in that order and each at
\* most once; the body is not read before fetch resolved, the transform is
\* not applied before the body read resolved, and the validator is not
\* consulted before the transform returned.
C24_StepOrder ==
  api = "class" =>
    /\ \A i, j \in 1..Len(log) :
         (i < j /\ log[i] \in Steps /\ log[j] \in Steps)
           => StepPos(log[i]) < StepPos(log[j])
    /\ Len(log) > 0 => log[1] = "fetch"
    /\ Invoked("get") => response # NoResponse
    /\ Invoked("json") => (response # NoResponse /\ Invoked("get"))
    /\ Invoked("handler") => (pc = "done" /\ Invoked("json") /\ Parsed)
    /\ Invoked("decode") => (Invoked("handler") /\ to # Thrown)

C24_Witness ==
  /\ Resolved
  /\ log = <<"fetch", "get", "json", "handler", "decode">>
  /\ outcome.kind = "ok"

\* this step is a Fetcher.map call
Mapped ==
  /\ api = "class"
  /\ Len(calls') = Len(calls) + 1
  /\ calls'[Len(calls')].op = "map"

\* C25: Fetcher.map(f) rewrites the whole registry at once: the registered
\* codes and their order are as before, every entry keeps its schema, every
\* entry's transform is the old transform followed by f exactly once, and
\* the call invokes nothing: no transform, f included, is applied.
C25_MapBulkUpdate ==
  [][Mapped =>
       LET f == calls'[Len(calls')].fn IN
       /\ Len(handlers') = Len(handlers)
       /\ \A i \in 1..Len(handlers) :
            /\ handlers'[i].code = handlers[i].code
            /\ handlers'[i].codec = handlers[i].codec
            /\ handlers'[i].handler = flow(handlers[i].handler, f)
       /\ log' = log
       /\ outcome' = outcome
  ]_vars

C25_Witness ==
  /\ api = "class"
  /\ Len(calls) >= 3
  /\ calls[Len(calls)].op = "map"
  /\ Len(handlers) = 2
  /\ handlers[1].codec # NoCodec
  /\ handlers[1].handler = flow(identity, calls[Len(calls)].fn)
  /\ handlers[2].handler = flow(identity, calls[Len(calls)].fn)

\* this step is a handle, discardRest or map call on the class builder
BuilderCalled == api = "class" /\ Len(calls') = Len(calls) + 1

\* C26: map(f) reaches only the handlers registered before it and nothing
\* is dispatched by the builder: a handler added with handle(c, h) after
\* map(f) is stored as h, so that status c yields h(body), and no handle,
\* discardRest or map call invokes the transport, a transform or the
\* fallback.
C26_MapOnlyEarlierHandlers ==
  [][BuilderCalled =>
       LET c == calls'[Len(calls')] IN
       /\ log' = log
       /\ pc' = pc
       /\ response' = response
       /\ outcome' = outcome
       /\ c.op = "handle" =>
            /\ MapGet(handlers', c.code) = [handler |-> c.fn, codec |-> c.codec]
            /\ \A r \in Responses : r.status = c.code =>
                 RunOutcome(handlers', restHandler', r)
                   = AfterJson([handler |-> c.fn, codec |-> c.codec],
                               JSONParse(r.body))
  ]_vars

C26_Witness ==
  /\ Resolved
  /\ outcome.kind = "ok"
  /\ pair.handler = identity
  /\ Len(handlers) = 2
  /\ \E i \in 1..Len(handlers) : handlers[i].handler.op = "flow"
  /\ \E i, j \in 1..Len(calls) :
       /\ i < j
       /\ calls[i].op = "map" /\ calls[i].fn = length
       /\ calls[j].op = "handle" /\ calls[j].code = response.status

\* C27: a run works on the registry and the fallback as they were when it
\* began: a handle, map or discardRest call made while the fetch of that run
\* is pending changes neither the entry the run resolves nor the outcome it
\* settles with, whatever response arrives.
C27_RegistrySnapshot ==
  [][(BuilderCalled /\ pc = "fetch") =>
       \A r \in Responses :
         /\ MapGet(handlers', r.status) = MapGet(handlers, r.status)
         /\ RunOutcome(handlers', restHandler', r)
              = RunOutcome(handlers, restHandler, r)
  ]_vars

\* what a run settles with when it is the only run on the builder
Alone(r, rejection) ==
  IF r = NoResponse THEN rejection ELSE RunOutcome(handlers, restHandler, r)

\* C28: no step of a run changes handlers or restHandler, whatever the
\* outcome; and when two runs on one builder take their steps in any order,
\* with no registration in between, each settles with the outcome it would
\* produce alone for its own response.
C28_RunLeavesBuilder ==
  /\ [][(pc' # pc \/ pc2' # pc2)
          => (handlers' = handlers /\ restHandler' = restHandler)]_vars
  /\ [](api = "class" =>
          /\ pc = "done" => outcome = Alone(response, reason)
          /\ pc2 = "done" =>
               /\ outcome2 = Alone(response2, outcome2)
               /\ response2 = NoResponse => outcome2 \in FetchErrors)

C28_Witness ==
  /\ api = "class"
  /\ pc = "done" /\ pc2 = "json"
  /\ response.status = response2.status
  /\ response.body # response2.body
  /\ outcome.kind = "ok"
  /\ restHandler # NoRest

\* C29: handle, discardRest and map change the receiver and return it: the
\* builder reached through the returned reference is the builder reached
\* through the earlier one, so a dispatch started through either gives the
\* same outcome for every response and no un-mapped copy is left.
C29_SameInstance ==
  api = "class" =>
    /\ returned.handlers = handlers
    /\ returned.restHandler = restHandler
    /\ pc = "idle" =>
         \A r \in Responses \cup {FetchFailed} :
           RunOutcome(returned.handlers, returned.restHandler, r)
             = RunOutcome(handlers, restHandler, r)

C29_Witness ==
  /\ Resolved
  /\ Len(calls) >= 2
  /\ calls[Len(calls)].op = "map"
  /\ calls[Len(calls)].fn = length
  /\ pair.handler = flow(identity, length)
  /\ returned.handlers = handlers
  /\ outcome.kind = "ok"

====
